---- MODULE Spec2Model ----
(***************************************************************************)
(* The agent instruction queue and the database of Kroma's legacy Python  *)
(* backend:                                                                *)
(*   scripts/backend_api.py   create / confirm / cancel and the API's      *)
(*                            immediate dispatch (dispatch_to_agent)       *)
(*   scripts/agent_worker.py  reserve_next_instruction, process_instruction*)
(*                            and run_loop                                 *)
(*   scripts/agent_dispatch.py dispatch_instruction_http                   *)
(*   scripts/backend.py       init_schema and its backfills, ensure_user,  *)
(*                            ingest_run                                   *)
(* The SQLite database is the shared state.  Every action below is one     *)
(* committed transaction of the source (SQLite admits one writer at a      *)
(* time, so committed transactions are serialised); ingest_run, whose      *)
(* transaction can fail half-way, is taken job by job.                     *)
(***************************************************************************)
EXTENDS Integers, Sequences, FiniteSets, TLC

(* ------------------------------ bounds --------------------------------- *)
\* number of instructions ever created
MaxInstr == 2
\* number of worker processes polling the same database
NumWorkers == 2
\* the clock runs 0..MaxTime (seconds)
MaxTime == 2
\* rows of agent_instruction_events written in one behaviour
MaxEvents == 8
\* --max-locked-seconds and --retry-backoff-seconds the workers are started with
MaxLockedSeconds == 1
RetryBackoffSeconds == 1
\* retries and backoff_sec that dispatch_instruction_http is called with
MaxRetries == 2
BackoffSec == 2
\* calls of ingest_run in one behaviour
MaxIngests == 3
\* the clock of the database runs 0..MaxWall
MaxWall == 1

(* -------------------------- program constants -------------------------- *)
\* agent_instructions.max_attempts INTEGER NOT NULL DEFAULT 3
ColumnMaxAttempts == 3
\* --default-max-attempts, used when the column holds 0
DefaultMaxAttempts == 3
\* body.get("priority", 100)
DefaultPriority == 100

\* SQL NULL for timestamps, counters in payloads and worker ids
NULL == -1
\* SQL NULL / Python None for text columns
NONE == "NULL"

Ids == 1..MaxInstr
Workers == 1..NumWorkers
\* ids of the users a confirm request can name (Handler._ensure_actor_user)
Users == {"local"}
\* priorities a create request can carry
Priorities == {10, DefaultPriority}

\* agent_response_json TEXT NOT NULL DEFAULT '{}': no response stored yet
NoStatusKey == "{}"
\* the "status" values a 2xx response body of the remote agent can carry
RawStatuses == {"done", "running", "accepted", " Failed ", "bogus"}

\* str(x).strip().lower() on the values of RawStatuses
StripLower(s) == IF s = " Failed " THEN "failed" ELSE s

VARIABLES now, instr, events, wk, apiInflight

vars == <<now, instr, events, wk, apiInflight>>

\* one call of dispatch_instruction_http (agent_dispatch.py)
VARIABLE http

\* db: the committed content of the SQLite file.  conn: the connection of the
\* ingest_run in progress with its uncommitted transaction.  wall: now_iso().
\* ingests: the number of ingest_run calls that have returned or raised.
VARIABLES db, conn, wall, ingests

store == <<db, conn, wall, ingests>>

\* vault: the master key's sources (IAT_MASTER_KEY, secret-tool, the key
\* file) and the table project_api_secrets.
VARIABLE vault

\* one call of a function of backend.py that reads its argument only
VARIABLE call

\* the variables of the components a specification leaves idle
others == <<http, store, vault, call>>
allvars == <<vars, others>>

(* ------------------------------ helpers -------------------------------- *)
\* COALESCE(a, b)
Coalesce(a, b) == IF a # NULL THEN a ELSE b

\* one row of agent_instruction_events: event_type and the "status" key of
\* event_payload_json ("" when the payload has none)
Ev(t, s) == [type |-> t, status |-> s]

NoRow == [id |-> 0, attempts |-> 0, max_attempts |-> 0]

\* emit_event / Handler._emit_instruction_event
EmitEvent(evs, i, e) == [evs EXCEPT ![i] = Append(@, e)]

(* ------------------------------- Init ---------------------------------- *)
Init ==
    /\ now = 0
    /\ instr = <<>>
    /\ events = <<>>
    /\ wk = [w \in Workers |-> [pc |-> "poll", row |-> NoRow]]
    /\ apiInflight = {}

(* ------------------------------ the clock ------------------------------ *)
\* now_iso(): time passes between transactions.  The clock is read first by
\* the first create request, which is taken as time 0.
Tick ==
    /\ now < MaxTime
    /\ DOMAIN instr # {}
    /\ now' = now + 1
    /\ UNCHANGED <<instr, events, wk, apiInflight>>

(* ------------------- backend_api.py: instruction API ------------------- *)
\* The events written so far, and the events the work in flight will still
\* write: a reserved row "started" and its settlement, a started row its
\* settlement, an API dispatch in flight its result.
RECURSIVE EventsCommitted(_, _)
EventsCommitted(S, W) ==
    IF S # {} THEN LET i == CHOOSE x \in S : TRUE
                   IN Len(events[i]) + EventsCommitted(S \ {i}, W)
    ELSE IF W # {} THEN LET w == CHOOSE x \in W : TRUE
                        IN (CASE wk[w].pc = "reserved" -> 2
                              [] wk[w].pc = "started" -> 1
                              [] OTHER -> 0)
                           + EventsCommitted(S, W \ {w})
    ELSE Cardinality(apiInflight)

\* A request or a reservation that will write n events is admitted while
\* they fit in MaxEvents, so that work in flight always completes.
Admits(n) == EventsCommitted(DOMAIN events, Workers) + n <= MaxEvents

\* Faulty variant of NewInstruction: the INSERT ignores requires_confirmation
\* and queues every instruction.
NewInstructionQueued(requires_confirmation, priority) ==
    [ status                |-> "queued",
      priority              |-> priority,
      requires_confirmation |-> requires_confirmation,
      confirmed_by_user_id  |-> NONE,
      created_at            |-> now,
      finished_at           |-> NULL,
      attempts              |-> 0,
      max_attempts          |-> ColumnMaxAttempts,
      next_attempt_at       |-> NULL,
      last_error            |-> NONE,
      locked_by             |-> NULL,
      locked_at             |-> NULL,
      agent_response_json   |-> NoStatusKey ]

\* The row INSERTed by POST /api/projects/<slug>/agent/instructions; the
\* columns the INSERT does not name take their schema defaults.
NewInstruction(requires_confirmation, priority) ==
    [ status                |-> IF requires_confirmation THEN "draft" ELSE "queued",
      priority              |-> priority,
      requires_confirmation |-> requires_confirmation,
      confirmed_by_user_id  |-> NONE,
      created_at            |-> now,
      finished_at           |-> NULL,
      attempts              |-> 0,
      max_attempts          |-> ColumnMaxAttempts,
      next_attempt_at       |-> NULL,
      last_error            |-> NONE,
      locked_by             |-> NULL,
      locked_at             |-> NULL,
      agent_response_json   |-> NoStatusKey ]

\* Handler._dispatch_instruction_if_configured up to the HTTP call: with
\* IAT_AGENT_API_URL empty it returns at once and writes nothing; otherwise
\* the dispatch is in flight and its result is written by ApiDispatchSettle.
ApiDispatchBegin(i, wanted, url_configured) ==
    apiInflight' = IF wanted /\ url_configured THEN apiInflight \cup {i} ELSE apiInflight

\* POST .../agent/instructions
Create(requires_confirmation, priority, dispatch_to_agent, url_configured) ==
    /\ Cardinality(DOMAIN instr) < MaxInstr
    /\ Admits((IF requires_confirmation THEN 1 ELSE 2)
              + (IF dispatch_to_agent /\ ~requires_confirmation /\ url_configured THEN 1 ELSE 0))
    /\ LET i == Cardinality(DOMAIN instr) + 1
           initial_status == IF requires_confirmation THEN "draft" ELSE "queued"
           created == <<Ev("created", initial_status)>>
       IN /\ instr' = [j \in DOMAIN instr \cup {i} |->
                          IF j = i THEN NewInstruction(requires_confirmation, priority)
                          ELSE instr[j]]
          /\ events' = [j \in DOMAIN instr \cup {i} |->
                          IF j = i
                          THEN IF requires_confirmation THEN created
                               ELSE Append(created, Ev("queued", ""))
                          ELSE events[j]]
          /\ ApiDispatchBegin(i, dispatch_to_agent /\ ~requires_confirmation, url_configured)
    /\ UNCHANGED <<now, wk>>

\* Faulty variant of Confirm: the two events are emitted in the other order.
ConfirmEventsSwapped(i, user, dispatch_to_agent, url_configured) ==
    /\ i \in DOMAIN instr
    /\ Admits(2 + (IF dispatch_to_agent /\ url_configured THEN 1 ELSE 0))
    /\ instr' = [instr EXCEPT ![i].status = "queued",
                              ![i].confirmed_by_user_id = user]
    /\ events' = EmitEvent(EmitEvent(events, i, Ev("confirmed", "")),
                           i, Ev("status_change", "queued"))
    /\ ApiDispatchBegin(i, dispatch_to_agent, url_configured)
    /\ UNCHANGED <<now, wk>>

\* POST .../agent/instructions/<id>/confirm
Confirm(i, user, dispatch_to_agent, url_configured) ==
    /\ i \in DOMAIN instr
    /\ Admits(2 + (IF dispatch_to_agent /\ url_configured THEN 1 ELSE 0))
    /\ instr' = [instr EXCEPT ![i].status = "queued",
                              ![i].confirmed_by_user_id = user]
    /\ events' = EmitEvent(EmitEvent(events, i, Ev("status_change", "queued")),
                           i, Ev("confirmed", ""))
    /\ ApiDispatchBegin(i, dispatch_to_agent, url_configured)
    /\ UNCHANGED <<now, wk>>

\* Faulty variant of Cancel: the status is updated and no event is emitted.
CancelSilently(i) ==
    /\ i \in DOMAIN instr
    /\ Admits(1)
    /\ instr' = [instr EXCEPT ![i].status = "canceled",
                              ![i].finished_at = Coalesce(@, now)]
    /\ UNCHANGED <<now, events, wk, apiInflight>>

\* POST .../agent/instructions/<id>/cancel
Cancel(i) ==
    /\ i \in DOMAIN instr
    /\ Admits(1)
    /\ instr' = [instr EXCEPT ![i].status = "canceled",
                              ![i].finished_at = Coalesce(@, now)]
    /\ events' = EmitEvent(events, i, Ev("status_change", "canceled"))
    /\ UNCHANGED <<now, wk, apiInflight>>

\* Handler._dispatch_instruction_if_configured: the remote status as the API
\* stores it
ApiDbStatus(raw) ==
    LET status == IF raw = NoStatusKey THEN "accepted" ELSE StripLower(raw)
        mapped == IF status \in {"accepted", "queued", "running", "done", "failed"}
                  THEN status ELSE "accepted"
    IN IF mapped \in {"accepted", "queued"} THEN "queued" ELSE mapped

\* Handler._dispatch_instruction_if_configured after dispatch_instruction_http
\* has returned: ok = FALSE is the branch "if not dispatch.get('ok')".
ApiDispatchSettle(i, ok, raw) ==
    /\ i \in apiInflight
    /\ apiInflight' = apiInflight \ {i}
    /\ IF ~ok
       THEN /\ instr' = [instr EXCEPT ![i].status = "failed",
                                      ![i].finished_at = now]
            /\ events' = EmitEvent(events, i, Ev("error", ""))
       ELSE LET db_status == ApiDbStatus(raw)
                finished_at == IF db_status \in {"done", "failed"} THEN now ELSE NULL
            IN /\ instr' = [instr EXCEPT ![i].status = db_status,
                                                ![i].finished_at = Coalesce(finished_at, @)]
               /\ events' = EmitEvent(events, i, Ev("result", ""))
    /\ UNCHANGED <<now, wk>>

(* --------------------------- agent_worker.py --------------------------- *)
\* Faulty variant of IsQueued: the status predicate also admits running rows.
IsQueuedOrRunning(i) == instr[i].status \in {"queued", "running"}

\* reserve_next_instruction: the predicate status = 'queued' of the SELECT
\* (line 56) and of the UPDATE (line 77)
IsQueued(i) == instr[i].status = "queued"

\* Faulty variant of Eligible: the WHERE clause without next_attempt_at.
EligibleIgnoringBackoff(i) ==
    /\ IsQueued(i)
    /\ (instr[i].locked_at = NULL \/ instr[i].locked_at <= now - MaxLockedSeconds)

\* reserve_next_instruction: the WHERE clause of the SELECT
Eligible(i) ==
    /\ IsQueued(i)
    /\ (instr[i].next_attempt_at = NULL \/ instr[i].next_attempt_at <= now)
    /\ (instr[i].locked_at = NULL \/ instr[i].locked_at <= now - MaxLockedSeconds)

\* Faulty variant of FirstInOrder: ORDER BY created_at ASC alone.
FirstByAge(i, S) == \A j \in S : instr[i].created_at <= instr[j].created_at

\* reserve_next_instruction: ORDER BY priority ASC, created_at ASC; i can be
\* the row LIMIT 1 returns (rows equal in both keys come in either order)
FirstInOrder(i, S) ==
    \A j \in S :
        \/ instr[i].priority < instr[j].priority
        \/ /\ instr[i].priority = instr[j].priority
           /\ instr[i].created_at <= instr[j].created_at

\* reserve_next_instruction: rowcount of "UPDATE ... WHERE id = ? AND status = 'queued'"
ReserveRowcount(i) == IF IsQueued(i) THEN 1 ELSE 0

\* reserve_next_instruction, from BEGIN IMMEDIATE to COMMIT.  BEGIN IMMEDIATE
\* takes the database's write lock before the SELECT, so the SELECT and the
\* UPDATE see the same rows.  With no eligible row, or rowcount # 1, the
\* function returns None and the loop polls again: the state is unchanged.
Reserve(w) ==
    /\ wk[w].pc = "poll"
    /\ Admits(2)
    /\ \E i \in DOMAIN instr :
        /\ Eligible(i)
        /\ FirstInOrder(i, {j \in DOMAIN instr : Eligible(j)})
        /\ ReserveRowcount(i) = 1
        /\ instr' = [instr EXCEPT ![i].status = "running",
                                  ![i].locked_by = w,
                                  ![i].locked_at = now,
                                  ![i].next_attempt_at = NULL]
        /\ wk' = [wk EXCEPT ![w] = [pc |-> "reserved",
                                    row |-> [id |-> i,
                                             attempts |-> instr[i].attempts,
                                             max_attempts |-> instr[i].max_attempts]]]
    /\ UNCHANGED <<now, events, apiInflight>>

\* process_instruction, lines 119-122: the "started" event and its commit
Start(w) ==
    /\ wk[w].pc = "reserved"
    /\ events' = EmitEvent(events, wk[w].row.id, Ev("started", ""))
    /\ wk' = [wk EXCEPT ![w].pc = "started"]
    /\ UNCHANGED <<now, instr, apiInflight>>

\* map_remote_status
map_remote_status(remote_status) ==
    LET val == IF remote_status = NoStatusKey THEN "done" ELSE StripLower(remote_status)
    IN IF val \in {"done", "failed", "running"} THEN val
       ELSE IF val \in {"accepted", "queued"} THEN "done"
       ELSE "done"

\* int(instruction_row["max_attempts"] or args.default_max_attempts)
RowMaxAttempts(row) == IF row.max_attempts = 0 THEN DefaultMaxAttempts ELSE row.max_attempts

\* process_instruction: the two failure settlements (no agent URL, lines
\* 155-191; dispatch not ok, lines 238-264) write the same columns
SettleFailure(w, err) ==
    LET i == wk[w].row.id
        attempts == wk[w].row.attempts + 1
        max_attempts == RowMaxAttempts(wk[w].row)
        retryable == attempts < max_attempts
        next_attempt_at == IF retryable THEN now + RetryBackoffSeconds * attempts ELSE NULL
        new_status == IF retryable THEN "queued" ELSE "failed"
    IN /\ instr' = [instr EXCEPT ![i].status = new_status,
                                 ![i].attempts = attempts,
                                 ![i].max_attempts = max_attempts,
                                 ![i].next_attempt_at = next_attempt_at,
                                 ![i].finished_at = IF new_status = "failed" THEN now ELSE @,
                                 ![i].last_error = err,
                                 ![i].locked_by = NULL,
                                 ![i].locked_at = NULL]
       /\ events' = EmitEvent(events, i,
                              Ev(IF retryable THEN "retry_scheduled" ELSE "error", ""))

\* process_instruction, lines 204-236: dispatch.get("ok")
SettleSuccess(w, raw) ==
    LET i == wk[w].row.id
        attempts == wk[w].row.attempts + 1
        max_attempts == RowMaxAttempts(wk[w].row)
        remote_status == map_remote_status(raw)
        finished_at == IF remote_status \in {"done", "failed"} THEN now ELSE NULL
    IN /\ instr' = [instr EXCEPT ![i].status = remote_status,
                                 ![i].attempts = attempts,
                                 ![i].max_attempts = max_attempts,
                                 ![i].agent_response_json = raw,
                                 ![i].finished_at = Coalesce(finished_at, @),
                                 ![i].last_error = NONE,
                                 ![i].locked_by = NULL,
                                 ![i].locked_at = NULL]
       /\ events' = EmitEvent(events, i, Ev("result", ""))

\* process_instruction from line 124 to its return.  The project row always
\* exists (no operation deletes a project), so lines 125-136 are not taken.
\* has_url: resolve_agent_target found a URL; ok, raw: what
\* dispatch_instruction_http returned.
Settle(w, has_url, ok, raw) ==
    /\ wk[w].pc = "started"
    /\ IF ~has_url THEN SettleFailure(w, "missing_agent_api_url")
       ELSE IF ok THEN SettleSuccess(w, raw)
       ELSE SettleFailure(w, "dispatch_failed")
    /\ wk' = [wk EXCEPT ![w] = [pc |-> "poll", row |-> NoRow]]
    /\ UNCHANGED <<now, apiInflight>>

(* -------------------------- agent_dispatch.py --------------------------- *)
\* What one POST attempt of dispatch_instruction_http meets: a 2xx response
\* with a JSON body (or an empty one), a 2xx response whose body json.loads
\* rejects, an HTTPError (non-2xx), a URLError, any other exception.
Outcomes == {"2xx_json", "2xx_bad_body", "http_error", "url_error", "exception"}

\* The text left in last_error by each failing outcome: the three except
\* clauses; a JSONDecodeError raised inside the try is caught by the last one.
ErrorOf(outcome) ==
    CASE outcome = "http_error" -> "http_<code>:<body>"
      [] outcome = "url_error" -> "url_error:<reason>"
      [] outcome = "2xx_bad_body" -> "str(JSONDecodeError)"
      [] OTHER -> "str(exc)"

NoResult == [ok |-> FALSE, attempts |-> -1, error |-> NONE]

\* No call of dispatch_instruction_http is in progress.
HttpIdle ==
    [pc |-> "idle", target_url |-> FALSE, retries |-> 0, attempt |-> 0,
     posts |-> <<>>, sleeps |-> <<>>, last_error |-> NONE, result |-> NoResult]

\* dispatch_instruction_http, lines 15-29: the call, the test of target_url
\* and the initialisation of the loop.  target_url: the URL is not empty.
DispatchCall(target_url, retries) ==
    /\ http.pc = "idle"
    /\ http' = IF ~target_url
               THEN [HttpIdle EXCEPT !.pc = "returned", !.retries = retries,
                                     !.result = [ok |-> FALSE, attempts |-> 0,
                                                 error |-> "missing_target_url"]]
               ELSE [HttpIdle EXCEPT !.pc = "loop", !.target_url = TRUE,
                                     !.retries = retries]
    /\ UNCHANGED <<vars, store, vault, call>>

\* dispatch_instruction_http, lines 30-57: one iteration of the while loop.
\* posts records the outcome of every POST made, sleeps every time.sleep.
DispatchAttempt(outcome) ==
    /\ http.pc = "loop"
    /\ http.attempt <= http.retries
    /\ LET attempt == http.attempt + 1
           posts == Append(http.posts, outcome)
       IN http' = IF outcome = "2xx_json"
                  THEN [http EXCEPT !.pc = "returned", !.attempt = attempt, !.posts = posts,
                                    !.result = [ok |-> TRUE, attempts |-> attempt,
                                                error |-> NONE]]
                  ELSE [http EXCEPT !.attempt = attempt, !.posts = posts,
                                    !.last_error = ErrorOf(outcome),
                                    !.sleeps = IF attempt <= http.retries
                                               THEN Append(@, BackoffSec * attempt)
                                               ELSE @]
    /\ UNCHANGED <<vars, store, vault, call>>

\* dispatch_instruction_http, lines 30 and 60: the loop condition fails and
\* the function returns the failure.
DispatchGiveUp ==
    /\ http.pc = "loop"
    /\ ~(http.attempt <= http.retries)
    /\ http' = [http EXCEPT !.pc = "returned",
                            !.result = [ok |-> FALSE, attempts |-> http.attempt,
                                        error |-> IF http.last_error # NONE
                                                  THEN http.last_error
                                                  ELSE "unknown_dispatch_error"]]
    /\ UNCHANGED <<vars, store, vault, call>>

\* The caller has the result; the next call starts afresh.
DispatchDone ==
    /\ http.pc = "returned"
    /\ http' = HttpIdle
    /\ UNCHANGED <<vars, store, vault, call>>

DispatchNext ==
    \/ \E u \in BOOLEAN, r \in 0..MaxRetries : DispatchCall(u, r)
    \/ \E o \in Outcomes : DispatchAttempt(o)
    \/ DispatchGiveUp
    \/ DispatchDone

(* ------------------------ backend.py: the database ---------------------- *)
\* A column that an older schema did not have yet (before ensure_column):
\* ABSENT in a text column, AbsentNum in a numeric one.
ABSENT == "<no column>"
AbsentNum == -2
EmptyJson == "{}"

\* Asset paths and run-log paths (normalize_rel_path leaves them as they are).
AssetPaths == {"x", "y"}
RunLogPaths == {"a", "b"}

\* slugify on the user names used here
Usernames == {"bob", "Bob"}
slugify(u) == IF u = "Bob" THEN "bob" ELSE u
DisplayNames == {"Bob", "Robert"}
Emails == {NONE, "bob@example.org"}

\* Run-log documents (the JSON read by read_json).  cost_usd is in
\* thousandths of a dollar, so that 125 is 0.125 USD.
Cand(idx, out, fin) == [candidate_index |-> idx, output |-> out, final_output |-> fin]
Job(key, sel, out, fin, cands) ==
    [id |-> key, selected_candidate |-> sel, output |-> out, final_output |-> fin,
     candidates |-> cands]
RunLogs == {"plain", "reversed", "dup_job", "dup_candidate"}
read_json(log) ==
    CASE log = "plain" ->
           [mode |-> "txt2img",
            jobs |-> << Job("j1", 1, NONE, "y", << Cand(1, "x", "y") >>) >>,
            output_guard |-> TRUE, cost_events |-> << 125 >>]
      [] log = "reversed" ->
           [mode |-> "img2img",
            jobs |-> << Job("j1", 1, NONE, "x", << Cand(1, "y", "x") >>) >>,
            output_guard |-> FALSE, cost_events |-> << >>]
      [] log = "dup_job" ->
           [mode |-> "txt2img",
            jobs |-> << Job("j1", NULL, "x", "x", << >>), Job("j1", NULL, "y", "y", << >>) >>,
            output_guard |-> FALSE, cost_events |-> << 250 >>]
      [] OTHER ->
           [mode |-> "txt2img",
            jobs |-> << Job(NONE, 1, NONE, "x", << Cand(1, "x", "x"), Cand(1, "y", "y") >>) >>,
            output_guard |-> TRUE, cost_events |-> << >>]

\* schema_migrations versions recorded by init_schema (the first and the last)
Versions == {"20260220_0001_base_schema", "20260221_0024_phase3_asset_fk_backfill"}


\* init_schema's CREATE TABLE IF NOT EXISTS on a new file: every table empty.
\* There is one project, whose row in projects is not represented; the rows
\* of every table belong to it.
EmptyDb ==
    [users |-> {}, app_users |-> {}, project_storage |-> {},
     runs |-> {}, run_jobs |-> {}, run_job_candidates |-> {}, run_candidates |-> {},
     assets |-> {}, asset_links |-> {}, quality_reports |-> {}, cost_events |-> {},
     audit_events |-> << >>, schema_migrations |-> {}, next_id |-> 1]

\* A file written by a version of the schema that had only the legacy
\* columns and the users table: one user, one run without jobs, one asset,
\* one cost event of 2.50 USD, one audit event.
LegacyDb ==
    [EmptyDb EXCEPT
       !.users = {[id |-> 1, username |-> "bob", display_name |-> "Bob", email |-> NONE,
                   is_active |-> 0]},
       !.runs = {[id |-> 2, run_log_path |-> "b", mode |-> "txt2img", run_mode |-> ABSENT,
                  meta_json |-> "{run_meta}", settings_snapshot_json |-> ABSENT,
                  log |-> "legacy", nth |-> 1]},
       !.assets = {[id |-> 3, rel_path |-> "x", storage_uri |-> ABSENT,
                    asset_kind |-> "candidate_output", kind |-> ABSENT,
                    meta_json |-> "{path_exists}", metadata_json |-> ABSENT,
                    run_id |-> 2, job_id |-> NULL, candidate_id |-> NULL]},
       !.cost_events = {[run_id |-> 2, seq |-> 1, amount_cents |-> 250, cost_usd |-> AbsentNum,
                         event_type |-> "generation", operation_code |-> ABSENT]},
       !.audit_events = << [action |-> "run.ingested", event_code |-> ABSENT] >>,
       !.next_id = 4]

NoConn == [pc |-> "closed"]

\* Python's round() of cost_usd * 100.0, cost_usd given in thousandths of a
\* dollar: to the nearest cent, a half to the even cent.
PyRoundCents(mills) ==
    LET q == mills \div 10
        r == mills % 10
    IN IF r < 5 THEN q
       ELSE IF r > 5 THEN q + 1
       ELSE IF q % 2 = 0 THEN q ELSE q + 1

\* SQLite's ROUND(cost_usd * 100.0): to the nearest cent, a half upwards.
SqlRoundCents(mills) == (mills + 5) \div 10

\* SELECT id FROM assets WHERE rel_path = ? OR storage_uri = ?
\* ORDER BY created_at DESC LIMIT 1 (NULL when no row matches)
FindAsset(d, path) ==
    LET found == {a \in d.assets : a.rel_path = path \/ a.storage_uri = path}
    IN IF found = {} THEN NULL
       ELSE (CHOOSE a \in found : \A b \in found : b.id <= a.id).id

\* upsert_asset: the asset of a path is overwritten when there is one and
\* inserted otherwise.  The result is the database and the asset's id.
upsert_asset(d, run_id, job_id, candidate_id, asset_kind, rel_path) ==
    LET existing == FindAsset(d, rel_path)
        row(id) == [id |-> id, rel_path |-> rel_path, storage_uri |-> rel_path,
                    asset_kind |-> asset_kind, kind |-> asset_kind,
                    meta_json |-> "{path_exists}", metadata_json |-> "{path_exists}",
                    run_id |-> run_id, job_id |-> job_id, candidate_id |-> candidate_id]
    IN IF rel_path = NONE THEN [db |-> d, id |-> NULL]
       ELSE IF existing # NULL
       THEN [db |-> [d EXCEPT !.assets = {a \in @ : a.id # existing} \cup {row(existing)}],
             id |-> existing]
       ELSE [db |-> [d EXCEPT !.assets = @ \cup {row(d.next_id)}, !.next_id = @ + 1],
             id |-> d.next_id]

\* insert_quality_report: run_job_id/job_id and run_job_candidate_id/
\* candidate_id receive the same values.
insert_quality_report(d, run_id, job_id, candidate_id) ==
    [d EXCEPT !.quality_reports =
        @ \cup {[run_id |-> run_id, job_id |-> job_id, candidate_id |-> candidate_id]}]

\* insert_cost_event: amount_cents is computed from cost_usd; event_type and
\* operation_code both receive the operation code.
insert_cost_event(d, run_id, seq, operation_code, cost_usd) ==
    [d EXCEPT !.cost_events =
        @ \cup {[run_id |-> run_id, seq |-> seq,
                 amount_cents |-> PyRoundCents(cost_usd), cost_usd |-> cost_usd,
                 event_type |-> operation_code, operation_code |-> operation_code]}]

\* emit_audit_event: action and event_code both receive the event code.
emit_audit_event(d, event_code) ==
    [d EXCEPT !.audit_events = Append(@, [action |-> event_code, event_code |-> event_code])]

\* A variant of the deletion below that keeps the old run's quality reports
\* and cost events.
DeleteExistingRunOnly(d, run_log_path) ==
    LET gone == {r.id : r \in {r \in d.runs : r.run_log_path = run_log_path}}
        jobs == {j.id : j \in {j \in d.run_jobs : j.run_id \in gone}}
    IN [d EXCEPT !.runs = {r \in @ : r.id \notin gone},
                 !.run_jobs = {j \in @ : j.run_id \notin gone},
                 !.run_job_candidates = {c \in @ : c.job_id \notin jobs},
                 !.run_candidates = {c \in @ : c.job_id \notin jobs}]

\* ingest_run, lines 2087-2095: the run already stored for the run log, with
\* what its deletion removes (ON DELETE CASCADE from runs to run_jobs and
\* from run_jobs to run_job_candidates and run_candidates).
DeleteExistingRun(d, run_log_path) ==
    LET gone == {r.id : r \in {r \in d.runs : r.run_log_path = run_log_path}}
        jobs == {j.id : j \in {j \in d.run_jobs : j.run_id \in gone}}
    IN [d EXCEPT !.quality_reports = {q \in @ : q.run_id \notin gone},
                 !.cost_events = {c \in @ : c.run_id \notin gone},
                 !.runs = {r \in @ : r.id \notin gone},
                 !.run_jobs = {j \in @ : j.run_id \notin gone},
                 !.run_job_candidates = {c \in @ : c.job_id \notin jobs},
                 !.run_candidates = {c \in @ : c.job_id \notin jobs}]

\* ingest_run, lines 2097-2122: INSERT INTO runs.  log and nth are not
\* columns: they record the run log the row was read from and how many
\* times in a row that log has been ingested for the path.
InsertRun(d, run_log_path, log, nth) ==
    [d EXCEPT !.runs = @ \cup {[id |-> d.next_id, run_log_path |-> run_log_path,
                                mode |-> read_json(log).mode,
                                run_mode |-> read_json(log).mode,
                                meta_json |-> "{run_meta}",
                                settings_snapshot_json |-> "{run_meta}",
                                log |-> log, nth |-> nth]},
              !.next_id = @ + 1]

\* The rows of runs that hold an earlier ingest of the same log for the path.
SameLogRuns(d, run_log_path, log) ==
    {r \in d.runs : r.run_log_path = run_log_path /\ r.log = log}

\* ingest_run, lines 2179-2299: one candidate of a job.  c is the state of
\* the call: the transaction's view of the database, whether an exception
\* was raised, and inserted_candidates.
IngestCandidate(c, run_id, job_id, candidate) ==
    LET d0 == c.work
        candidate_id == d0.next_id
        candidate_index == IF candidate.candidate_index = NULL
                           THEN c.inserted_candidates + 1
                           ELSE candidate.candidate_index
        d1 == [d0 EXCEPT !.run_job_candidates =
                            @ \cup {[id |-> candidate_id, job_id |-> job_id,
                                     candidate_index |-> candidate_index,
                                     output_path |-> candidate.output,
                                     final_output_path |-> candidate.final_output]},
                         !.next_id = @ + 1]
        out == upsert_asset(d1, run_id, job_id, candidate_id, "candidate_output",
                            candidate.output)
        fin == IF candidate.final_output # NONE /\ candidate.final_output # candidate.output
               THEN upsert_asset(out.db, run_id, job_id, candidate_id,
                                 "candidate_final_output", candidate.final_output)
               ELSE [db |-> out.db,
                     id |-> IF candidate.final_output # NONE THEN out.id ELSE NULL]
        d2 == [fin.db EXCEPT !.run_candidates =
                                @ \cup {[id |-> candidate_id, job_id |-> job_id,
                                         candidate_index |-> candidate_index,
                                         output_asset_id |-> out.id,
                                         final_asset_id |-> fin.id]}]
    IN IF \E r \in d0.run_job_candidates :
             r.job_id = job_id /\ r.candidate_index = candidate_index
       THEN [c EXCEPT !.raised = TRUE]      \* UNIQUE(job_id, candidate_index)
       ELSE [c EXCEPT !.work = insert_quality_report(d2, run_id, job_id, candidate_id),
                      !.inserted_candidates = @ + 1]

RECURSIVE IngestCandidates(_, _, _, _)
IngestCandidates(c, run_id, job_id, candidates) ==
    IF candidates = << >> \/ c.raised THEN c
    ELSE IngestCandidates(IngestCandidate(c, run_id, job_id, Head(candidates)),
                          run_id, job_id, Tail(candidates))

\* ingest_run, lines 2133-2318: the job at position idx of the run log.
IngestJob(c, run_id, idx, job) ==
    LET d0 == c.work
        job_key == IF job.id # NONE THEN job.id
                   ELSE IF idx = 1 THEN "job_1" ELSE "job_2"
        job_id == d0.next_id
        d1 == [d0 EXCEPT !.run_jobs =
                            @ \cup {[id |-> job_id, run_id |-> run_id, job_key |-> job_key,
                                     selected_candidate_index |-> job.selected_candidate,
                                     final_output |-> job.final_output,
                                     final_asset_id |-> NULL]},
                         !.next_id = @ + 1]
        candidates == IF job.candidates = << >>
                      THEN << Cand(1, job.output, job.final_output) >>
                      ELSE job.candidates
        c1 == IngestCandidates([c EXCEPT !.work = d1], run_id, job_id, candidates)
        final == upsert_asset(c1.work, run_id, job_id, NULL, "job_final_output",
                              job.final_output)
    IN IF \E r \in d0.run_jobs : r.run_id = run_id /\ r.job_key = job_key
       THEN [c EXCEPT !.raised = TRUE]      \* UNIQUE(run_id, job_key)
       ELSE IF c1.raised \/ job.final_output = NONE THEN c1
       ELSE [c1 EXCEPT !.work =
               [final.db EXCEPT !.run_jobs =
                   {IF j.id = job_id THEN [j EXCEPT !.final_asset_id = final.id] ELSE j
                      : j \in @}]]

RECURSIVE InsertCostEvents(_, _, _, _)
InsertCostEvents(d, run_id, seq, rows) ==
    IF rows = << >> THEN d
    ELSE InsertCostEvents(insert_cost_event(d, run_id, seq, "generation", Head(rows)),
                          run_id, seq + 1, Tail(rows))

\* ingest_run, lines 2320-2371: the run-level quality report, the cost
\* events and the audit event that follow the jobs.
IngestTail(d, run_id, run_data) ==
    LET d1 == IF run_data.output_guard THEN insert_quality_report(d, run_id, NULL, NULL)
              ELSE d
        d2 == InsertCostEvents(d1, run_id, 1, run_data.cost_events)
    IN emit_audit_event(d2, "run.ingested")

\* SQL's "col IS NULL OR col = ''"
IsEmpty(v) == v = NONE \/ v = ""

\* init_schema, lines 1644-1700: ensure_column adds each missing column with
\* its declared default, and NULL where none is declared.
EnsureColumns(d) ==
    LET text(v, default) == IF v = ABSENT THEN default ELSE v
    IN [d EXCEPT
          !.runs = {[r EXCEPT !.run_mode = text(@, NONE),
                              !.settings_snapshot_json = text(@, EmptyJson)] : r \in @},
          !.assets = {[a EXCEPT !.kind = text(@, NONE),
                                !.storage_uri = text(@, NONE),
                                !.metadata_json = text(@, EmptyJson)] : a \in @},
          !.cost_events = {[c EXCEPT !.operation_code = text(@, "legacy_event"),
                                     !.cost_usd = IF @ = AbsentNum THEN 0 ELSE @] : c \in @},
          !.audit_events = [k \in DOMAIN @ |->
                              [@[k] EXCEPT !.event_code = text(@, "legacy_event")]]]

\* _sync_users_to_app_users: every users row is written to app_users,
\* replacing the row of the same id.
SyncUsersToAppUsers(d) ==
    [d EXCEPT !.app_users =
        {a \in @ : \A u \in d.users : u.id # a.id} \cup d.users]

\* _sync_canonical_columns: the UPDATE statements on assets and runs, in
\* the order of the source.
SyncCanonicalAsset(a) ==
    LET a1 == IF IsEmpty(a.kind) THEN [a EXCEPT !.kind = a.asset_kind] ELSE a
        a2 == IF IsEmpty(a1.storage_uri) THEN [a1 EXCEPT !.storage_uri = a1.rel_path] ELSE a1
        a3 == IF IsEmpty(a2.metadata_json) THEN [a2 EXCEPT !.metadata_json = a2.meta_json]
              ELSE a2
        a4 == IF IsEmpty(a3.asset_kind) /\ a3.kind # NONE
              THEN [a3 EXCEPT !.asset_kind = a3.kind] ELSE a3
        a5 == IF IsEmpty(a4.rel_path) /\ a4.storage_uri # NONE
              THEN [a4 EXCEPT !.rel_path = a4.storage_uri] ELSE a4
    IN IF (IsEmpty(a5.meta_json) \/ a5.meta_json = EmptyJson) /\ a5.metadata_json # NONE
       THEN [a5 EXCEPT !.meta_json = a5.metadata_json] ELSE a5

SyncCanonicalRun(r) ==
    LET r1 == IF IsEmpty(r.run_mode) THEN [r EXCEPT !.run_mode = r.mode] ELSE r
    IN IF IsEmpty(r1.settings_snapshot_json)
       THEN [r1 EXCEPT !.settings_snapshot_json = r1.meta_json] ELSE r1

SyncCanonicalColumns(d) ==
    [d EXCEPT !.assets = {SyncCanonicalAsset(a) : a \in @},
              !.runs = {SyncCanonicalRun(r) : r \in @}]

\* upsert_project_storage_from_settings, called for the project by
\* _sync_project_storage_from_projects: the row is updated, or inserted when
\* there is none; either way updated_at becomes the time of the call.
upsert_project_storage_from_settings(d, ts) ==
    [d EXCEPT !.project_storage =
        IF @ # {} THEN {[s EXCEPT !.updated_at = ts] : s \in @}
        ELSE {[created_at |-> ts, updated_at |-> ts]}]

\* _ensure_asset_id_for_uri: the asset of a path, completed where it has
\* NULL or empty columns, or a new asset.
EnsureAssetIdForUri(d, uri, asset_kind, run_id, job_id, candidate_id) ==
    LET existing == FindAsset(d, uri)
        coalesce(a, b) == IF a # NULL THEN a ELSE b
        nonempty(a, b) == IF IsEmpty(a) THEN b ELSE a
        fill(a) == [a EXCEPT !.run_id = coalesce(@, run_id),
                             !.job_id = coalesce(@, job_id),
                             !.candidate_id = coalesce(@, candidate_id),
                             !.kind = nonempty(@, asset_kind),
                             !.asset_kind = nonempty(@, asset_kind),
                             !.storage_uri = nonempty(@, uri),
                             !.rel_path = nonempty(@, uri),
                             !.metadata_json = nonempty(@, "{phase3_backfill}"),
                             !.meta_json = nonempty(@, "{phase3_backfill}")]
    IN IF uri = NONE THEN [db |-> d, id |-> NULL]
       ELSE IF existing # NULL
       THEN [db |-> [d EXCEPT !.assets = {IF a.id = existing THEN fill(a) ELSE a : a \in @}],
             id |-> existing]
       ELSE [db |-> [d EXCEPT !.assets =
                        @ \cup {[id |-> d.next_id, rel_path |-> uri, storage_uri |-> uri,
                                 asset_kind |-> asset_kind, kind |-> asset_kind,
                                 meta_json |-> "{phase3_backfill}",
                                 metadata_json |-> "{phase3_backfill}",
                                 run_id |-> run_id, job_id |-> job_id,
                                 candidate_id |-> candidate_id]},
                      !.next_id = @ + 1],
             id |-> d.next_id]

\* _upsert_asset_link with link_type "derived_from": nothing for a missing
\* end or a link of an asset to itself, nothing for a link already there.
UpsertAssetLink(d, parent_asset_id, child_asset_id) ==
    IF parent_asset_id = NULL \/ child_asset_id = NULL \/ parent_asset_id = child_asset_id
    THEN d
    ELSE [d EXCEPT !.asset_links =
            @ \cup {[parent_asset_id |-> parent_asset_id, child_asset_id |-> child_asset_id]}]

\* The row of least id in a non-empty set of rows (rows come in rowid order).
FirstRow(rows) == CHOOSE r \in rows : \A s \in rows : r.id <= s.id

\* _sync_run_candidates: for every run_job_candidates row, its assets, the
\* link between them and its run_candidates row.  (_ensure_asset_id_for_uri
\* returns an id for every path that is not empty, so the source's fallback
\* of final_asset_id to output_asset_id never applies.)
SyncRunCandidate(d, r) ==
    LET run_id == (CHOOSE j \in d.run_jobs : j.id = r.job_id).run_id
        out == EnsureAssetIdForUri(d, r.output_path, "candidate_output",
                                   run_id, r.job_id, r.id)
        fin == EnsureAssetIdForUri(out.db, r.final_output_path, "candidate_final_output",
                                   run_id, r.job_id, r.id)
        d1 == UpsertAssetLink(fin.db, out.id, fin.id)
    IN [d1 EXCEPT !.run_candidates =
           {c \in @ : c.id # r.id}
           \cup {[id |-> r.id, job_id |-> r.job_id, candidate_index |-> r.candidate_index,
                  output_asset_id |-> out.id, final_asset_id |-> fin.id]}]

RECURSIVE SyncRunCandidateRows(_, _)
SyncRunCandidateRows(d, rows) ==
    IF rows = {} THEN d
    ELSE SyncRunCandidateRows(SyncRunCandidate(d, FirstRow(rows)), rows \ {FirstRow(rows)})

SyncRunCandidates(d) == SyncRunCandidateRows(d, d.run_job_candidates)

\* _apply_phase1_backfills
ApplyPhase1Backfills(d, ts) ==
    SyncRunCandidates(
        upsert_project_storage_from_settings(
            SyncCanonicalColumns(SyncUsersToAppUsers(d)), ts))

\* _sync_phase2_columns: the UPDATE statements on cost_events and
\* audit_events, in the order of the source.
SyncPhase2Cost(c) ==
    LET c1 == IF IsEmpty(c.operation_code)
              THEN [c EXCEPT !.operation_code =
                       IF IsEmpty(c.event_type) THEN "legacy_event" ELSE c.event_type]
              ELSE c
        c2 == IF c1.cost_usd = NULL
              THEN [c1 EXCEPT !.cost_usd = (IF c1.amount_cents = NULL THEN 0
                                            ELSE c1.amount_cents) * 10]
              ELSE c1
        c3 == IF IsEmpty(c2.event_type)
              THEN [c2 EXCEPT !.event_type = c2.operation_code] ELSE c2
    IN IF c3.amount_cents = NULL
       THEN [c3 EXCEPT !.amount_cents = SqlRoundCents(c3.cost_usd)] ELSE c3

SyncPhase2Audit(e) ==
    LET e1 == IF IsEmpty(e.event_code)
              THEN [e EXCEPT !.event_code =
                       IF IsEmpty(e.action) THEN "legacy_event" ELSE e.action]
              ELSE e
    IN IF IsEmpty(e1.action) THEN [e1 EXCEPT !.action = e1.event_code] ELSE e1

SyncPhase2Columns(d) ==
    [d EXCEPT !.cost_events = {SyncPhase2Cost(c) : c \in @},
              !.audit_events = [k \in DOMAIN @ |-> SyncPhase2Audit(@[k])]]

\* _seed_quality_reports_from_candidates: a report for every candidate that
\* has none.
SeedQualityReportsFromCandidates(d) ==
    [d EXCEPT !.quality_reports =
        @ \cup {[run_id |-> (CHOOSE j \in d.run_jobs : j.id = c.job_id).run_id,
                 job_id |-> c.job_id, candidate_id |-> c.id]
                  : c \in {c \in d.run_job_candidates :
                             \A q \in d.quality_reports : q.candidate_id # c.id}}]

\* _apply_phase2_backfills
ApplyPhase2Backfills(d) == SeedQualityReportsFromCandidates(SyncPhase2Columns(d))

\* The run_candidates row of a job's selected candidate: the asset that the
\* job's final asset derives from (its final asset, else its output asset).
SelectedParent(d, job) ==
    LET sel == {c \in d.run_candidates :
                  c.job_id = job.id /\ c.candidate_index = job.selected_candidate_index}
        row == FirstRow(sel)
    IN IF job.selected_candidate_index = NULL \/ sel = {} THEN NULL
       ELSE IF row.final_asset_id # NULL THEN row.final_asset_id ELSE row.output_asset_id

\* _sync_run_job_final_assets: for every run_jobs row, its final asset and
\* the link from the selected candidate's asset to it.
SyncRunJobFinalAsset(d, job) ==
    LET parent == SelectedParent(d, job)
        fa1 == IF job.final_asset_id = NULL THEN parent ELSE job.final_asset_id
        made == IF fa1 = NULL /\ job.final_output # NONE
                THEN EnsureAssetIdForUri(d, job.final_output, "job_final_output",
                                         job.run_id, job.id, NULL)
                ELSE [db |-> d, id |-> fa1]
        final_output == IF made.id # NULL /\ job.final_output = NONE
                        THEN (CHOOSE a \in made.db.assets : a.id = made.id).storage_uri
                        ELSE job.final_output
        d1 == [made.db EXCEPT !.run_jobs =
                  {IF j.id = job.id
                   THEN [j EXCEPT !.final_asset_id = IF made.id # NULL THEN made.id ELSE @,
                                  !.final_output = IF IsEmpty(@) THEN final_output ELSE @]
                   ELSE j : j \in @}]
    IN UpsertAssetLink(IF made.id # NULL \/ final_output # NONE THEN d1 ELSE made.db,
                       parent, made.id)

RECURSIVE SyncRunJobRows(_, _)
SyncRunJobRows(d, rows) ==
    IF rows = {} THEN d
    ELSE SyncRunJobRows(SyncRunJobFinalAsset(d, FirstRow(rows)), rows \ {FirstRow(rows)})

SyncRunJobFinalAssets(d) == SyncRunJobRows(d, d.run_jobs)

\* _seed_asset_links_from_run_graph: a link from every candidate's output
\* asset to its final asset, and from every job's selected candidate's asset
\* to the job's final asset.
SeedAssetLinksFromRunGraph(d) ==
    LET candidate_links ==
            {[parent_asset_id |-> c.output_asset_id, child_asset_id |-> c.final_asset_id]
               : c \in {c \in d.run_candidates :
                          /\ c.output_asset_id # NULL
                          /\ c.final_asset_id # NULL
                          /\ c.output_asset_id # c.final_asset_id}}
        job_links ==
            {[parent_asset_id |-> SelectedParent(d, j), child_asset_id |-> j.final_asset_id]
               : j \in {j \in d.run_jobs :
                          /\ j.final_asset_id # NULL
                          /\ SelectedParent(d, j) # NULL
                          /\ SelectedParent(d, j) # j.final_asset_id}}
    IN [d EXCEPT !.asset_links = @ \cup candidate_links \cup job_links]

\* _apply_phase3_backfills
ApplyPhase3Backfills(d) ==
    SeedAssetLinksFromRunGraph(SyncRunJobFinalAssets(SyncRunCandidates(d)))

\* record_migration for every version: INSERT OR IGNORE keeps a row that is
\* already there.
RecordMigrations(d, ts) ==
    [d EXCEPT !.schema_migrations =
        @ \cup {[version |-> v, applied_at |-> ts]
                  : v \in {v \in Versions : \A m \in d.schema_migrations : m.version # v}}]

\* init_schema: the columns, the three backfills and the migration rows,
\* committed together.
init_schema(d, ts) ==
    RecordMigrations(
        ApplyPhase3Backfills(ApplyPhase2Backfills(ApplyPhase1Backfills(EnsureColumns(d), ts))),
        ts)

\* get_user_by_username: the app_users row of the name, else the users row
UserByUsername(d, username) ==
    LET canonical == {u \in d.app_users : u.username = username}
        legacy == {u \in d.users : u.username = username}
    IN IF canonical # {} THEN FirstRow(canonical).id
       ELSE IF legacy # {} THEN FirstRow(legacy).id
       ELSE NULL

\* A variant of the dual write below that writes app_users only.
UpsertAppUserOnly(d, user_id, username, display_name, email) ==
    [d EXCEPT !.app_users =
        {u \in @ : u.id # user_id}
        \cup {[id |-> user_id, username |-> username, display_name |-> display_name,
                email |-> email, is_active |-> 1]}]

\* _upsert_user_dual: the same row is written to app_users and to users,
\* replacing the row of the same id.
UpsertUserDual(d, user_id, username, display_name, email) ==
    LET row == [id |-> user_id, username |-> username, display_name |-> display_name,
                email |-> email, is_active |-> 1]
    IN [d EXCEPT !.app_users = {u \in @ : u.id # user_id} \cup {row},
                 !.users = {u \in @ : u.id # user_id} \cup {row}]

\* ensure_user: the id found for the slugified name is reused, else a new id.
ensure_user(d, username, display_name, email) ==
    LET name == slugify(username)
        found == UserByUsername(d, name)
    IN IF found # NULL THEN UpsertUserDual(d, found, name, display_name, email)
       ELSE [UpsertUserDual(d, d.next_id, name, display_name, email)
               EXCEPT !.next_id = @ + 1]

(* ------------------------- the database: actions ----------------------- *)
\* The clock of now_iso() advances.
StoreTick ==
    /\ wall < MaxWall
    /\ wall' = wall + 1
    /\ UNCHANGED <<db, conn, ingests>>

\* Handler._db of backend_api.py (connect_db, init_schema), as every request
\* that only reads does, and every command of backend.py on start.  A second
\* writer waits for the open transaction of an ingest.
OpenDb ==
    /\ conn.pc = "closed"
    /\ db' = init_schema(db, wall)
    /\ UNCHANGED <<conn, wall, ingests>>

\* cmd_create_user and its like: init_schema, then ensure_user.
EnsureUser(username, display_name, email) ==
    /\ conn.pc = "closed"
    /\ db' = ensure_user(init_schema(db, wall), username, display_name, email)
    /\ UNCHANGED <<conn, wall, ingests>>

\* The start of an ingest, by POST /api/projects/<slug>/runs/ingest (api) or
\* by cmd_ingest_run: init_schema (and ensure_user for the command), both
\* committed, then ingest_run up to the INSERT INTO runs, lines 2074-2122.
IngestBegin(run_log_path, log, api) ==
    /\ conn.pc = "closed"
    /\ ingests < MaxIngests
    /\ LET d0 == init_schema(db, wall)
           d1 == IF api THEN d0 ELSE ensure_user(d0, "bob", "Bob", NONE)
       IN /\ db' = d1
          /\ conn' = [pc |-> "jobs", api |-> api, run_log_path |-> run_log_path,
                      log |-> log, before |-> d1, run_id |-> d1.next_id, idx |-> 1,
                      work |-> InsertRun(DeleteExistingRun(d1, run_log_path),
                                         run_log_path, log,
                                         IF SameLogRuns(d1, run_log_path, log) = {} THEN 1
                                         ELSE FirstRow(SameLogRuns(d1, run_log_path, log)).nth + 1),
                      raised |-> FALSE, inserted_candidates |-> 0]
    /\ UNCHANGED <<wall, ingests>>

\* ingest_run, lines 2133-2318: one iteration of the loop over the jobs.  A
\* uniqueness violation raises sqlite3.IntegrityError out of ingest_run.
IngestNextJob ==
    /\ conn.pc = "jobs"
    /\ conn.idx <= Len(read_json(conn.log).jobs)
    /\ LET c == IngestJob(conn, conn.run_id, conn.idx, read_json(conn.log).jobs[conn.idx])
       IN conn' = [c EXCEPT !.idx = @ + 1, !.pc = IF c.raised THEN "raised" ELSE "jobs"]
    /\ UNCHANGED <<db, wall, ingests>>

\* Any other exception while ingest_run is at work: a file that cannot be
\* read by sha256_of_file, a full disk.
IngestFail ==
    /\ conn.pc = "jobs"
    /\ conn' = [conn EXCEPT !.raised = TRUE, !.pc = "raised"]
    /\ UNCHANGED <<db, wall, ingests>>

\* ingest_run, lines 2320-2381, after the last job: the run-level report,
\* the cost events, the audit event and conn.commit(); for the API the
\* handler's own audit event and commit follow (backend_api.py 2137-2146).
IngestCommit ==
    /\ conn.pc = "jobs"
    /\ conn.idx > Len(read_json(conn.log).jobs)
    /\ LET done == IngestTail(conn.work, conn.run_id, read_json(conn.log))
       IN db' = IF conn.api THEN emit_audit_event(done, "run.ingest.request") ELSE done
    /\ conn' = NoConn
    /\ ingests' = ingests + 1
    /\ UNCHANGED wall

\* A variant of the close below in which closing the connection commits
\* what the failed call had written.
IngestCloseCommitting ==
    /\ conn.pc = "raised"
    /\ db' = conn.work
    /\ conn' = NoConn
    /\ ingests' = ingests + 1
    /\ UNCHANGED wall

\* The exception leaves ingest_run: the handler's finally closes the
\* connection, the command's process ends.  Nothing was committed since the
\* transaction began, so SQLite rolls it back.
IngestClose ==
    /\ conn.pc = "raised"
    /\ conn' = NoConn
    /\ ingests' = ingests + 1
    /\ UNCHANGED <<db, wall>>

StoreNext ==
    \/ StoreTick /\ UNCHANGED <<vars, http, vault, call>>
    \/ OpenDb /\ UNCHANGED <<vars, http, vault, call>>
    \/ \E u \in Usernames, n \in DisplayNames, e \in Emails :
          EnsureUser(u, n, e) /\ UNCHANGED <<vars, http, vault, call>>
    \/ \E p \in RunLogPaths, l \in RunLogs, api \in BOOLEAN :
          IngestBegin(p, l, api) /\ UNCHANGED <<vars, http, vault, call>>
    \/ IngestNextJob /\ UNCHANGED <<vars, http, vault, call>>
    \/ IngestFail /\ UNCHANGED <<vars, http, vault, call>>
    \/ IngestCommit /\ UNCHANGED <<vars, http, vault, call>>
    \/ IngestClose /\ UNCHANGED <<vars, http, vault, call>>

\* The database when the program has opened it for the first time: a new
\* file or a legacy one, after init_schema.
StoreIdle ==
    /\ db = init_schema(EmptyDb, 0)
    /\ conn = NoConn
    /\ wall = 0
    /\ ingests = 0


(* ------------------- backend.py: project API secrets ------------------- *)
\* the audit log grows with every upsert and delete: MaxSecretOps of them
MaxSecretOps == 3
\* Fernet keys an operator can configure
KeyNames == {"k1", "k2"}
\* keys Fernet.generate_key() can return: never one that was seen before
GeneratedKeys == {"g1", "g2"}
\* (project_id, provider_code, secret_name) triples
SecretNames == {"openai/default", "openai/backup"}
\* secret values; "" is the empty string
Plaintexts == {"", "sk-1", "sk-2"}

MasterKeyNotFound == [error |-> "RuntimeError: Master key not found"]
KeyMismatch == [error |-> "RuntimeError: Unable to decrypt secret (invalid token or master key mismatch)"]
EmptySecret == [error |-> "ValueError: Secret value must not be empty"]
NoSecret == [value |-> NONE]
\* no row of project_api_secrets for a name
NoToken == [signed_with |-> NONE, payload |-> NONE]
NoWrite == [value |-> NONE, key |-> NONE]

\* Fernet(key).encrypt(x): an authenticated token, bound to the key
FernetEncrypt(key, x) == [signed_with |-> key, payload |-> x]

\* Faulty variant of FernetDecrypt: the payload is returned under any key.
FernetDecryptUnauthenticated(key, token) == [value |-> token.payload]

\* Fernet(key).decrypt(token): InvalidToken unless the token was made with key
FernetDecrypt(key, token) ==
    IF token.signed_with = key THEN [value |-> token.payload]
    ELSE [error |-> "InvalidToken"]

\* load_or_create_master_key up to "if not allow_create": IAT_MASTER_KEY,
\* then secret-tool, then the key file; NONE when no source has a key
load_master_key(v) ==
    IF v.env # NONE THEN v.env
    ELSE IF v.ring # NONE THEN v.ring
    ELSE v.file

\* decrypt_secret_value
decrypt_secret_value(v, secret_ciphertext) ==
    LET key == load_master_key(v)
    IN IF key = NONE THEN MasterKeyNotFound
       ELSE LET r == FernetDecrypt(key, secret_ciphertext)
            IN IF "error" \in DOMAIN r THEN KeyMismatch ELSE r

\* fetch_project_secret_value: None without a row
fetch_project_secret_value(v, name) ==
    IF v.secrets[name] = NoToken THEN NoSecret
    ELSE decrypt_secret_value(v, v.secrets[name])

VaultIdle ==
    [env |-> NONE, ring |-> NONE, file |-> NONE,
     secrets |-> [n \in SecretNames |-> NoToken], audit |-> <<>>,
     written |-> [n \in SecretNames |-> NoWrite],
     last |-> [op |-> "none", name |-> NONE, result |-> NoSecret]]

\* the keys some stored token was made with
KeysInUse == {vault.secrets[n].signed_with : n \in SecretNames}

\* The operator exports or unsets IAT_MASTER_KEY between two commands.
SetEnvKey(k) ==
    /\ vault.env # k
    /\ vault' = [vault EXCEPT !.env = k,
                              !.last = [op |-> "set_env", name |-> NONE, result |-> NoSecret]]

\* upsert_project_secret.  written is not a column: it records the value
\* and the master key of the last upsert of each name.  tool_stores:
\* _secret_tool_store returned True.
UpsertSecret(name, secret_value, generated, tool_stores) ==
    IF secret_value = ""
    THEN vault' = [vault EXCEPT !.last = [op |-> "upsert", name |-> name, result |-> EmptySecret]]
    ELSE LET found == load_master_key(vault)
             key == IF found # NONE THEN found ELSE generated
             v1 == IF found # NONE THEN vault
                   ELSE IF tool_stores THEN [vault EXCEPT !.ring = generated]
                   ELSE [vault EXCEPT !.file = generated]
             ciphertext == FernetEncrypt(key, secret_value)
             event == IF vault.secrets[name] # NoToken THEN "secret.updated" ELSE "secret.created"
         IN /\ Len(vault.audit) < MaxSecretOps
            /\ found = NONE => generated \notin KeysInUse
            /\ vault' = [v1 EXCEPT
                 !.secrets[name] = ciphertext,
                 !.audit = Append(@, event),
                 !.written[name] = [value |-> secret_value, key |-> key],
                 !.last = [op |-> "upsert", name |-> name, result |-> [value |-> secret_value]]]

\* cmd_get_project_secret / the API's secret lookup: fetch_project_secret_value
FetchSecret(name) ==
    vault' = [vault EXCEPT !.last = [op |-> "fetch", name |-> name,
                                     result |-> fetch_project_secret_value(vault, name)]]

\* cmd_delete_project_secret
DeleteSecret(name) ==
    /\ Len(vault.audit) < MaxSecretOps
    /\ vault' = [vault EXCEPT
        !.secrets[name] = NoToken,
        !.written[name] = NoWrite,
        !.audit = Append(@, "secret.deleted"),
        !.last = [op |-> "delete", name |-> name, result |-> NoSecret]]

SecretNext ==
    \/ \E k \in KeyNames \cup {NONE} : SetEnvKey(k) /\ UNCHANGED <<vars, http, store, call>>
    \/ \E n \in SecretNames, x \in Plaintexts, g \in GeneratedKeys, t \in BOOLEAN :
          UpsertSecret(n, x, g, t) /\ UNCHANGED <<vars, http, store, call>>
    \/ \E n \in SecretNames : FetchSecret(n) /\ UNCHANGED <<vars, http, store, call>>
    \/ \E n \in SecretNames : DeleteSecret(n) /\ UNCHANGED <<vars, http, store, call>>

\* no call of a pure function yet
CallIdle == [fn |-> "none"]

\* the components other than the instruction queue, idle
OthersIdle == http = HttpIdle /\ StoreIdle /\ vault = VaultIdle /\ call = CallIdle

StoreInit ==
    /\ Init
    /\ http = HttpIdle
    /\ db \in {init_schema(EmptyDb, 0), init_schema(LegacyDb, 0)}
    /\ conn = NoConn
    /\ wall = 0
    /\ ingests = 0
    /\ vault = VaultIdle
    /\ call = CallIdle

StoreSpec == StoreInit /\ [][StoreNext]_allvars

\* the project API secrets alone
SecretInit == Init /\ OthersIdle
SecretSpec == SecretInit /\ [][SecretNext]_allvars

(* ------------------ backend.py: functions of a run log ------------------ *)
\* the longest jobs list and cost_events list of a run log
MaxJobs == 3
MaxCostItems == 2
\* a value of the run log that is not of the type the code tests for
\* (isinstance(x, list) / isinstance(x, dict) is False)
WrongType == [kind |-> "other"]
\* a key the document does not have
NoKey == [kind |-> "missing"]
\* a JSON array
List(items) == [kind |-> "list", items |-> items]
\* a job of the list "jobs" that is not a dict
NotAJob == "<not a dict>"
\* the "status" of a job: a dict without the key is NoStatusKey
JobStatuses == {"done", "planned", "failed", " Failed: timeout ", "DONE", "running", NoStatusKey}

\* str(j.get("status", "")).strip().lower() on the values of JobStatuses
NormalizeJobStatus(s) ==
    CASE s = NoStatusKey -> ""
      [] s = " Failed: timeout " -> "failed: timeout"
      [] s = "DONE" -> "done"
      [] OTHER -> s

\* s.startswith("failed") on the normalised values
StartsWithFailed(s) == s \in {"failed", "failed: timeout"}

\* sequences over S of length 0..n
SeqUpTo(S, n) == UNION {[1..k -> S] : k \in 0..n}

\* [f(x) for x in seq if keep(x)]
SelectMap(seq, keep(_), f(_)) ==
    LET kept == SelectSeq(seq, keep)
    IN [k \in 1..Len(kept) |-> f(kept[k])]

Range(seq) == {seq[k] : k \in DOMAIN seq}

\* the values of "jobs": missing, not a list, or a list of job dicts and
\* of values that are not dicts
JobsValues ==
    {NoKey, WrongType} \cup {List(s) : s \in SeqUpTo(JobStatuses \cup {NotAJob}, MaxJobs)}

\* isinstance(j, dict)
IsJob(j) == j # NotAJob

\* derive_run_status
derive_run_status(run_data) ==
    LET jobs == IF run_data.jobs = NoKey THEN List(<<>>) ELSE run_data.jobs
    IN IF jobs.kind # "list" THEN "unknown"
       ELSE LET statuses == SelectMap(jobs.items, IsJob, NormalizeJobStatus)
            IN IF \E s \in Range(statuses) : StartsWithFailed(s) THEN "failed"
               ELSE IF statuses # <<>> /\ \A s \in Range(statuses) : s \in {"done", "planned"}
                    THEN "ok"
               ELSE "partial"

\* Costs are in thousandths of a dollar; NULL is None / a missing key.
\* An item of cost_events or the generation object: its cost keys.
CostDicts == [kind : {"dict"}, cost_usd : {NULL, 125}, amount_cents : {NULL, 30}]
\* isinstance(x, dict)
IsDict(x) == x.kind = "dict"
\* the values of "cost_events" and of "generation"
CostEventsValues ==
    {NoKey, WrongType} \cup {List(s) : s \in SeqUpTo(CostDicts \cup {WrongType}, MaxCostItems)}
GenerationValues == {NoKey, WrongType} \cup CostDicts
\* the run logs the two functions are applied to: all values of "jobs" in a
\* log without costs, and all values of the cost keys in a log without jobs
RunDocs ==
    [jobs : JobsValues, cost_events : {NoKey}, generation : {NoKey},
     cost_usd : {NULL}, amount_cents : {NULL}]
    \cup [jobs : {List(<<>>)}, cost_events : CostEventsValues, generation : GenerationValues,
          cost_usd : {NULL, 500}, amount_cents : {NULL, 70}]

\* cost_usd, else float(amount_cents) / 100.0, else None
CostOf(d) ==
    IF d.cost_usd # NULL THEN d.cost_usd
    ELSE IF d.amount_cents # NULL THEN d.amount_cents * 10
    ELSE NULL

\* extract_cost_event_rows, lines 1109-1132: one event per dict of the list
ExplicitEvent(item) ==
    [operation_code |-> "legacy_event",
     cost_usd |-> IF CostOf(item) \in {NULL, 0} THEN 0 ELSE CostOf(item)]
ExplicitEvents(run_data) ==
    IF run_data.cost_events.kind # "list" THEN <<>>
    ELSE SelectMap(run_data.cost_events.items, IsDict, ExplicitEvent)

\* extract_cost_event_rows, lines 1134-1154: the generation object
GenerationEvents(run_data) ==
    IF ~IsDict(run_data.generation) THEN <<>>
    ELSE IF CostOf(run_data.generation) = NULL THEN <<>>
    ELSE <<[operation_code |-> "image_generation", cost_usd |-> CostOf(run_data.generation)]>>

\* extract_cost_event_rows, lines 1158-1173: the top-level cost
TopLevelEvents(run_data) ==
    IF CostOf(run_data) = NULL THEN <<>>
    ELSE <<[operation_code |-> "run_total", cost_usd |-> CostOf(run_data)]>>

\* extract_cost_event_rows
extract_cost_event_rows(run_data) ==
    LET rows == ExplicitEvents(run_data) \o GenerationEvents(run_data)
    IN IF rows = <<>> THEN TopLevelEvents(run_data) ELSE rows

\* one call of derive_run_status
DeriveRunStatus ==
    /\ call.fn = "none"
    /\ call' = [fn |-> "derive_run_status", arg |-> call.arg,
                result |-> derive_run_status(call.arg)]

\* one call of extract_cost_event_rows
ExtractCostEventRows ==
    /\ call.fn = "none"
    /\ call' = [fn |-> "extract_cost_event_rows", arg |-> call.arg,
                result |-> extract_cost_event_rows(call.arg)]

RunLogNext ==
    \/ DeriveRunStatus /\ UNCHANGED <<vars, http, store, vault>>
    \/ ExtractCostEventRows /\ UNCHANGED <<vars, http, store, vault>>

\* a run log has been read and no function applied to it yet
RunLogInit ==
    /\ Init
    /\ http = HttpIdle
    /\ StoreIdle
    /\ vault = VaultIdle
    /\ call \in [fn : {"none"}, arg : RunDocs]

RunLogSpec == RunLogInit /\ [][RunLogNext]_allvars

\* dispatch_instruction_http called any number of times, the queue untouched
DispatchInit == Init /\ OthersIdle
DispatchSpec == DispatchInit /\ [][DispatchNext]_allvars

(* ---------------------------- specification ---------------------------- *)
Next ==
    \/ Tick /\ UNCHANGED others
    \/ \E rc \in BOOLEAN, p \in Priorities, d \in BOOLEAN, u \in BOOLEAN : Create(rc, p, d, u) /\ UNCHANGED others
    \/ \E i \in Ids, user \in Users, d \in BOOLEAN, u \in BOOLEAN : Confirm(i, user, d, u) /\ UNCHANGED others
    \/ \E i \in Ids : Cancel(i) /\ UNCHANGED others
    \/ \E i \in Ids, ok \in BOOLEAN, raw \in RawStatuses : ApiDispatchSettle(i, ok, raw) /\ UNCHANGED others
    \/ \E w \in Workers : Reserve(w) /\ UNCHANGED others
    \/ \E w \in Workers : Start(w) /\ UNCHANGED others
    \/ \E w \in Workers, u \in BOOLEAN, ok \in BOOLEAN, raw \in RawStatuses : Settle(w, u, ok, raw) /\ UNCHANGED others

\* No fairness: a worker may stop for ever at any position, which is what a
\* killed worker process leaves behind (run_loop catches no exception).
QueueInit == Init /\ OthersIdle
Spec == QueueInit /\ [][Next]_allvars

\* The queue with worker loops that keep running and a remote agent that
\* answers every dispatch: instructions are created without confirmation
\* and without immediate dispatch, every worker has an agent URL, and no
\* request cancels.  run_loop is "while True": a worker at any position
\* takes its next step; the clock advances.
LiveNext ==
    \/ Tick /\ UNCHANGED others
    \/ \E p \in Priorities : Create(FALSE, p, FALSE, FALSE) /\ UNCHANGED others
    \/ \E w \in Workers : Reserve(w) /\ UNCHANGED others
    \/ \E w \in Workers : Start(w) /\ UNCHANGED others
    \/ \E w \in Workers, ok \in BOOLEAN, raw \in RawStatuses : Settle(w, TRUE, ok, raw) /\ UNCHANGED others

LiveInit == Init /\ OthersIdle
Fairness ==
    /\ WF_vars(Tick)
    /\ \A w \in Workers :
          /\ WF_vars(Reserve(w))
          /\ WF_vars(Start(w))
          /\ WF_vars(\E ok \in BOOLEAN, raw \in RawStatuses : Settle(w, TRUE, ok, raw))
LiveSpec == LiveInit /\ [][LiveNext]_allvars /\ Fairness

(* ------------------------------- claims -------------------------------- *)
\* In this step worker w's reserve_next_instruction returns instruction i.
Got(w, i) == wk[w].pc = "poll" /\ wk'[w].pc = "reserved" /\ wk'[w].row.id = i

\* Worker w holds instruction i: reserved by it and not yet settled.
Holds(w, i) == wk[w].pc \in {"reserved", "started"} /\ wk[w].row.id = i

RECURSIVE CountType(_, _)
CountType(evs, t) ==
    IF evs = <<>> THEN 0
    ELSE (IF Head(evs).type = t THEN 1 ELSE 0) + CountType(Tail(evs), t)

\* C1 (queue exclusivity): a worker receives an instruction from
\* reserve_next_instruction only in a step that moves that instruction from
\* queued to running and makes this worker its lease holder, and no other
\* worker receives anything in that step.
C1_QueueExclusivity ==
    [][\A w \in Workers : \A i \in DOMAIN instr :
          Got(w, i) =>
              /\ instr[i].status = "queued"
              /\ instr'[i].status = "running"
              /\ instr'[i].locked_by = w
              /\ \A j \in DOMAIN instr \ {i} : instr'[j] = instr[j]
              /\ \A v \in Workers \ {w} : wk'[v] = wk[v]]_vars

\* Two workers have reserved concurrently and hold different instructions.
C1_Witness ==
    \E w, v \in Workers : \E i, j \in DOMAIN instr :
        /\ w # v /\ i # j
        /\ Holds(w, i) /\ Holds(v, j)
        /\ instr[i].locked_by = w /\ instr[j].locked_by = v

\* C2 (stale lease reclaim), as claimed: an instruction in status running
\* whose lease is older than now - max_locked_seconds is selected by the next
\* reserve_next_instruction.
C2_StaleRunningReservable ==
    \A i \in DOMAIN instr :
        (/\ instr[i].status = "running"
         /\ instr[i].locked_at # NULL
         /\ instr[i].locked_at < now - MaxLockedSeconds)
        => Eligible(i)

\* The transitions of the state-machine table of the instruction queue.
TableTransitions ==
    {<<"draft", "queued">>, <<"queued", "running">>,
     <<"running", "done">>, <<"running", "failed">>, <<"running", "queued">>,
     <<"draft", "canceled">>, <<"queued", "canceled">>, <<"running", "canceled">>}

\* C3 (state machine), as claimed: an instruction is created in draft or
\* queued, and every change of its status is a transition of the table.
C3_OnlyTableTransitions ==
    [][/\ \A i \in DOMAIN instr' \ DOMAIN instr : instr'[i].status \in {"draft", "queued"}
       /\ \A i \in DOMAIN instr :
             instr'[i].status # instr[i].status
             => <<instr[i].status, instr'[i].status>> \in TableTransitions]_vars

\* An instruction that requires confirmation and has none yet is out of the
\* workers' and the dispatcher's reach.
Gated(i) ==
    (instr[i].requires_confirmation /\ instr[i].confirmed_by_user_id = NONE)
    => /\ instr[i].status \in {"draft", "canceled"}
       /\ instr[i].attempts = 0
       /\ instr[i].locked_by = NULL
       /\ i \notin apiInflight
       /\ \A w \in Workers : ~Holds(w, i)
       /\ CountType(events[i], "started") = 0
       /\ CountType(events[i], "result") = 0
       /\ CountType(events[i], "error") = 0

\* C4 (confirmation gate): an instruction created with requires_confirmation
\* starts in draft; until a confirm on it has committed no worker reserves it
\* and nothing dispatches it; the step that appends "confirmed" records the
\* confirming user and leaves the instruction queued.
C4_ConfirmationGate ==
    [][/\ \A i \in DOMAIN instr' \ DOMAIN instr :
             instr'[i].requires_confirmation
             => instr'[i].status = "draft" /\ instr'[i].confirmed_by_user_id = NONE
       /\ \A i \in DOMAIN instr' : Gated(i)'
       /\ \A i \in DOMAIN instr :
             CountType(events'[i], "confirmed") > CountType(events[i], "confirmed")
             => /\ instr'[i].status = "queued"
                /\ instr'[i].confirmed_by_user_id \in Users]_vars

\* A confirmed instruction that required confirmation is held by a worker.
C4_Witness ==
    \E i \in DOMAIN instr : \E w \in Workers :
        /\ instr[i].requires_confirmation
        /\ instr[i].confirmed_by_user_id \in Users
        /\ Holds(w, i)

\* Nobody cancelled instruction i or confirmed it again: it carries no cancel
\* event and at most the one confirm its draft needed.
NoCancelNoReconfirm(i) ==
    /\ \A k \in 1..Len(events[i]) :
          ~(events[i][k].type = "status_change" /\ events[i][k].status = "canceled")
    /\ CountType(events[i], "confirmed") <= (IF instr[i].requires_confirmation THEN 1 ELSE 0)

\* C5 (bounded retries), as claimed: an instruction whose every dispatch
\* failed, never cancelled nor confirmed again, ends failed only after
\* max_attempts worker attempts: max_attempts - 1 retry_scheduled events and
\* one error event.
C5_FailedAfterMaxAttempts ==
    \A i \in DOMAIN instr :
        (/\ instr[i].status = "failed"
         /\ CountType(events[i], "result") = 0
         /\ NoCancelNoReconfirm(i))
        => /\ instr[i].attempts = instr[i].max_attempts
           /\ CountType(events[i], "started") = instr[i].max_attempts
           /\ CountType(events[i], "retry_scheduled") = instr[i].max_attempts - 1
           /\ CountType(events[i], "error") = 1

\* In this step a worker settles instruction i as a failure with attempts left.
RetryScheduled(i) ==
    /\ Len(events'[i]) = Len(events[i]) + 1
    /\ events'[i][Len(events'[i])].type = "retry_scheduled"

\* In this step a worker settles instruction i as a failure.
FailureSettled(i) ==
    /\ Len(events'[i]) = Len(events[i]) + 1
    /\ events'[i][Len(events'[i])].type \in {"retry_scheduled", "error"}
    /\ \E w \in Workers : wk[w].pc = "started" /\ wk[w].row.id = i /\ wk'[w].pc = "poll"

C7_ReservationOrder ==
    [][\A w \in Workers : \A i \in DOMAIN instr :
          Got(w, i) =>
              /\ instr[i].status = "queued"
              /\ (instr[i].next_attempt_at = NULL \/ instr[i].next_attempt_at <= now)
              /\ (instr[i].locked_at = NULL \/ instr[i].locked_at <= now - MaxLockedSeconds)
              /\ \A j \in DOMAIN instr :
                    (/\ instr[j].status = "queued"
                     /\ (instr[j].next_attempt_at = NULL \/ instr[j].next_attempt_at <= now)
                     /\ (instr[j].locked_at = NULL \/ instr[j].locked_at <= now - MaxLockedSeconds))
                    => \/ instr[i].priority < instr[j].priority
                       \/ /\ instr[i].priority = instr[j].priority
                          /\ instr[i].created_at <= instr[j].created_at]_vars

\* Scenario S5: the priority-10 instruction, although created later, has been
\* reserved while the priority-100 one still waits; then both are held, one
\* by each worker.
C7_Witness ==
    \E w, v \in Workers : \E i, j \in DOMAIN instr :
        /\ w # v
        /\ instr[i].priority = 10 /\ instr[j].priority = 100
        /\ instr[j].created_at < instr[i].created_at
        /\ Holds(w, i) /\ Holds(v, j)
        /\ instr[i].locked_at < instr[j].locked_at

\* In this step worker w settles instruction i after a successful dispatch
\* (process_instruction's branch dispatch.get("ok")): it leaves "started" for
\* "poll" and appends the "result" event.
WorkerResult(w, i) ==
    /\ wk[w].pc = "started" /\ wk[w].row.id = i /\ wk'[w].pc = "poll"
    /\ Len(events'[i]) = Len(events[i]) + 1
    /\ events'[i][Len(events'[i])].type = "result"

\* The status claimed for a remote status: itself when it is done, failed or
\* running, and done otherwise.
ClaimedStatus(raw) ==
    IF StripLower(raw) \in {"done", "failed", "running"} THEN StripLower(raw) ELSE "done"

\* C8 (successful settlement), as claimed: the settlement of a successful
\* dispatch sets the status mapped from the response it stores, adds exactly
\* one to attempts, clears locked_by, locked_at and last_error, and sets
\* finished_at if and only if the new status is done or failed.
C8_SuccessSettlement ==
    [][\A w \in Workers : \A i \in DOMAIN instr :
          WorkerResult(w, i) =>
              /\ instr'[i].status = ClaimedStatus(instr'[i].agent_response_json)
              /\ instr'[i].attempts = instr[i].attempts + 1
              /\ instr'[i].locked_by = NULL
              /\ instr'[i].locked_at = NULL
              /\ instr'[i].last_error = NONE
              /\ IF instr'[i].status \in {"done", "failed"}
                 THEN instr'[i].finished_at = now
                 ELSE instr'[i].finished_at = instr[i].finished_at]_vars

\* The event types the specification lists.
ListedEventTypes ==
    {"created", "queued", "status_change", "confirmed", "result", "retry_scheduled", "error"}

\* The event types the code emits: the listed ones and the worker's "started".
EmittedEventTypes == ListedEventTypes \cup {"started"}

ScenarioS3(i) ==
    /\ instr[i].requires_confirmation
    /\ instr[i].confirmed_by_user_id \in Users
    /\ instr[i].status = "done"
    /\ instr[i].attempts = 1
    /\ instr[i].agent_response_json = "done"
    /\ CountType(events[i], "confirmed") = 1
    /\ CountType(events[i], "result") = 1
    /\ CountType(events[i], "error") = 0
    /\ CountType(events[i], "retry_scheduled") = 0
    /\ NoCancelNoReconfirm(i)

C11_CancelTerminalNoOp ==
    [][\A i \in Ids :
          (/\ i \in DOMAIN instr
           /\ instr[i].status \in {"done", "failed", "canceled"}
           /\ Cancel(i))
          => /\ instr'[i].status = instr[i].status
             /\ instr'[i].finished_at = instr[i].finished_at
             /\ events'[i] = events[i]]_vars

\* The POST attempts that got a 2xx response.
Posts2xx == {k \in 1..Len(http.posts) : http.posts[k] \in {"2xx_json", "2xx_bad_body"}}

\* C12 (dispatch_instruction_http), as claimed: when the call has returned,
\* at most retries + 1 POSTs were made; with an empty URL none, and the
\* result is ok = false, attempts = 0; if an attempt got a 2xx response it was
\* the last one made and the result is ok = true with attempts = the number
\* of POSTs; if none did, the result is ok = false with attempts = retries + 1
\* and the last attempt's error; the sleeps are backoff * attempt after each
\* failed attempt but the last.
C12_DispatchAsClaimed ==
    http.pc = "returned" =>
        /\ Len(http.posts) <= http.retries + 1
        /\ ~http.target_url
           => /\ http.posts = <<>>
              /\ ~http.result.ok /\ http.result.attempts = 0
        /\ (http.target_url /\ Posts2xx # {})
           => /\ Posts2xx = {Len(http.posts)}
              /\ http.result.ok
              /\ http.result.attempts = Len(http.posts)
        /\ (http.target_url /\ Posts2xx = {})
           => /\ ~http.result.ok
              /\ http.result.attempts = http.retries + 1
              /\ Len(http.posts) = http.retries + 1
              /\ http.result.error = ErrorOf(http.posts[Len(http.posts)])
        /\ http.target_url
           => http.sleeps = [k \in 1..(IF http.result.ok THEN Len(http.posts) - 1
                                       ELSE http.retries) |-> BackoffSec * k]

\* The number of rows of each table that an ingest writes.
RowCounts(d) ==
    [runs |-> Cardinality(d.runs), run_jobs |-> Cardinality(d.run_jobs),
     run_job_candidates |-> Cardinality(d.run_job_candidates),
     run_candidates |-> Cardinality(d.run_candidates),
     assets |-> Cardinality(d.assets),
     quality_reports |-> Cardinality({q \in d.quality_reports : q.run_id # NULL}),
     cost_events |-> Cardinality({c \in d.cost_events : c.run_id # NULL})]

\* The ids of the runs, jobs and candidates stored for a run log path.
RunGraphIds(d, run_log_path) ==
    LET runs == {r.id : r \in {r \in d.runs : r.run_log_path = run_log_path}}
        jobs == {j.id : j \in {j \in d.run_jobs : j.run_id \in runs}}
    IN runs \cup jobs
       \cup {c.id : c \in {c \in d.run_job_candidates : c.job_id \in jobs}}
       \cup {c.id : c \in {c \in d.run_candidates : c.job_id \in jobs}}

\* C13: when ingest_run commits the ingest of a run log that is already
\* stored for the same path, every table an ingest writes (runs, run_jobs,
\* run_job_candidates, run_candidates, assets, run-scoped quality_reports and
\* cost_events) has as many rows as before, and none of the run, job and
\* candidate ids of the path is an id it had before.
C13_IngestIdempotent ==
    [][(/\ IngestCommit
        /\ SameLogRuns(db, conn.run_log_path, conn.log) # {})
       => /\ RowCounts(db') = RowCounts(db)
          /\ RunGraphIds(db', conn.run_log_path) # {}
          /\ RunGraphIds(db', conn.run_log_path) \cap RunGraphIds(db, conn.run_log_path) = {}]_store

\* the same run log, with a job, candidates, reports and a cost event, has
\* been ingested twice in a row for one path
C13_Witness ==
    \E r \in db.runs : r.log = "plain" /\ r.nth >= 2 /\ conn.pc = "closed"

\* C14: while ingest_run is at work no other connection sees any of its
\* writes, and when it has failed (a uniqueness violation on a job or a
\* candidate, or any other exception) and its connection is closed, the
\* database is exactly what it was when ingest_run was called: every table
\* as before, the run stored for the path still there with its rows.
C14_IngestAtomic ==
    [][/\ conn.pc # "closed" => db = conn.before
       /\ (conn.pc = "raised" /\ conn'.pc = "closed") => db' = conn.before]_store

\* ingest_run has raised on a uniqueness violation or another exception
\* after it had deleted the run stored for the path and inserted a new run
\* and a job
C14_Witness ==
    /\ conn.pc = "raised"
    /\ \E r \in conn.before.runs :
          r.run_log_path = conn.run_log_path /\ r \notin conn.work.runs
    /\ conn.work.run_jobs # conn.before.run_jobs
    /\ conn.work.next_id > conn.before.next_id

\* A database as init_schema leaves it: running init_schema at the time of
\* its last run would change nothing.
ProducedByMigrator(d) == \E t \in 0..MaxWall : init_schema(d, t) = d

\* C15: init_schema run on a database that init_schema has produced changes
\* no row of any table and leaves the schema_migrations rows as they were.
C15_MigrationIdempotent ==
    [][(OpenDb /\ ProducedByMigrator(db)) => db' = db]_store

\* A legacy column and its canonical column agree: they hold the same
\* value, or the legacy column is empty (NULL, '' or '{}').
PairAgrees(legacy, canonical) ==
    legacy = canonical \/ IsEmpty(legacy) \/ legacy = EmptyJson

\* C16: in every committed database (init_schema has completed on each),
\* every row of runs, assets, cost_events and audit_events agrees on each of
\* its legacy/canonical column pairs.
C16_LegacyCanonicalEquivalent ==
    /\ \A r \in db.runs : /\ PairAgrees(r.mode, r.run_mode)
                          /\ PairAgrees(r.meta_json, r.settings_snapshot_json)
    /\ \A a \in db.assets : /\ PairAgrees(a.rel_path, a.storage_uri)
                            /\ PairAgrees(a.asset_kind, a.kind)
                            /\ PairAgrees(a.meta_json, a.metadata_json)
    /\ \A c \in db.cost_events : PairAgrees(c.event_type, c.operation_code)
    /\ \A k \in DOMAIN db.audit_events :
          PairAgrees(db.audit_events[k].action, db.audit_events[k].event_code)

\* The ids under which a table of users holds a name.
IdsOfName(table, username) == {u.id : u \in {u \in table : u.username = username}}

\* C17: users and app_users always hold the same ids and agree, for each id,
\* on username, display_name, email and is_active; and an ensure_user call
\* for a name that either table holds (after slugify) adds no id and leaves
\* the name under the id it had.
C17_UserDualWrite ==
    /\ [](db.users = db.app_users)
    /\ [][\A u \in Usernames :
            LET held == IdsOfName(db.users, slugify(u)) \cup IdsOfName(db.app_users, slugify(u))
            IN (held # {} /\ \E n \in DisplayNames, e \in Emails : EnsureUser(u, n, e))
               => /\ {x.id : x \in db'.users} = {x.id : x \in db.users}
                  /\ {x.id : x \in db'.app_users} = {x.id : x \in db.app_users}
                  /\ IdsOfName(db'.users, slugify(u)) = held
                  /\ IdsOfName(db'.app_users, slugify(u)) = held]_store

\* the user of the legacy database has been renamed and reactivated by
\* ensure_user under the id the legacy users table gave it
C17_Witness ==
    /\ \E r \in db.runs : r.log = "legacy"
    /\ \E u \in db.users :
          /\ u.id = 1 /\ u.username = "bob" /\ u.display_name = "Robert" /\ u.is_active = 1
          /\ u \in db.app_users
    /\ Cardinality(db.users) = 1

\* C18: every cost_events row of every committed database, written by
\* insert_cost_event or carried over from a legacy row by init_schema, has
\* amount_cents equal to cost_usd * 100 rounded to the cent.
C18_CostInvariant ==
    \A c \in db.cost_events : c.amount_cents = PyRoundCents(c.cost_usd)

\* The pairs <<a, b>> of assets with b reachable from a by one or more
\* parent -> child rows of asset_links.
RECURSIVE LinkClosure(_)
LinkClosure(R) ==
    LET R2 == R \cup {<<pq[1][1], pq[2][2]>> :
                        pq \in {pq \in R \X R : pq[1][2] = pq[2][1]}}
    IN IF R2 = R THEN R ELSE LinkClosure(R2)

Reachable(d) ==
    LinkClosure({<<l.parent_asset_id, l.child_asset_id>> : l \in d.asset_links})

\* C19: in every committed database no asset is reachable from itself along
\* asset_links.
C19_AssetLinksAcyclic ==
    \A p \in Reachable(db) : p[1] # p[2]

\* C20: a run ingest that commits appends exactly one audit_events row, and
\* a request that only reads (it opens the database and runs init_schema)
\* appends none.
C20_OneAuditRowPerMutation ==
    [][/\ IngestCommit => Len(db'.audit_events) = Len(db.audit_events) + 1
       /\ OpenDb => Len(db'.audit_events) = Len(db.audit_events)]_store

\* C21: secret round trip.  For every name whose last upsert stored the
\* non-empty value x under master key k and was followed by no delete of
\* that name: a fetch returns x while the master key in force is k, and
\* fails with the key-mismatch error, returning no value, while another
\* master key is in force.  An upsert of the empty string raises
\* ValueError and changes neither the table, the audit log nor the keys.
C21_RoundTrip ==
    \A n \in SecretNames :
        vault.written[n] # NoWrite =>
            LET key == load_master_key(vault)
                r == fetch_project_secret_value(vault, n)
            IN /\ vault.written[n].value # ""
               /\ key = vault.written[n].key => r = [value |-> vault.written[n].value]
               /\ (key # NONE /\ key # vault.written[n].key) => r = KeyMismatch
C21_EmptyRejected ==
    \A n \in SecretNames, g \in GeneratedKeys, t \in BOOLEAN :
        UpsertSecret(n, "", g, t) =>
            /\ vault'.last.result = EmptySecret
            /\ vault'.secrets = vault.secrets
            /\ vault'.audit = vault.audit
            /\ <<vault'.env, vault'.ring, vault'.file>> = <<vault.env, vault.ring, vault.file>>
C22_WorkerSoleAdapter ==
    [][\A i \in apiInflight \ apiInflight' :
          /\ instr'[i] = instr[i]
          /\ events'[i] = events[i]]_vars

\* C23: derive_run_status of a document whose "jobs" is a list returns
\* "failed" if the status of some job begins with "failed", otherwise "ok"
\* if the status of every job is "done" or "planned" (of every job of an
\* empty list too), otherwise "partial".
C23_DeriveRunStatus ==
    (call.fn = "derive_run_status" /\ call.arg.jobs.kind = "list") =>
        LET statuses == SelectMap(call.arg.jobs.items, IsJob, NormalizeJobStatus)
        IN call.result =
             IF \E s \in Range(statuses) : StartsWithFailed(s) THEN "failed"
             ELSE IF \A s \in Range(statuses) : s \in {"done", "planned"} THEN "ok"
             ELSE "partial"

\* C24: extract_cost_event_rows returns the events of exactly one source:
\* those of the cost_events list if there is one, otherwise the one of the
\* generation object if it carries a cost, otherwise the top-level cost.
C24_OneCostSource ==
    call.fn = "extract_cost_event_rows" =>
        call.result =
            IF ExplicitEvents(call.arg) # <<>> THEN ExplicitEvents(call.arg)
            ELSE IF GenerationEvents(call.arg) # <<>> THEN GenerationEvents(call.arg)
            ELSE TopLevelEvents(call.arg)

\* C25: when ingest_run commits, the committed asset_links hold a link from
\* the output asset to the final asset of every candidate of the ingested
\* run whose two assets are distinct, and a link from the asset of the
\* selected candidate of every job of the run to the job's final asset
\* (when they are distinct assets).
C25_LinksAtCommit ==
    [][IngestCommit =>
        LET run_id == conn.run_id
            jobs == {j \in db'.run_jobs : j.run_id = run_id}
            candidates == {c \in db'.run_candidates : \E j \in jobs : c.job_id = j.id}
        IN /\ \A c \in candidates :
                 (/\ c.output_asset_id # NULL
                  /\ c.final_asset_id # NULL
                  /\ c.output_asset_id # c.final_asset_id)
                 => [parent_asset_id |-> c.output_asset_id,
                     child_asset_id |-> c.final_asset_id] \in db'.asset_links
           /\ \A j \in jobs :
                 (/\ j.final_asset_id # NULL
                  /\ SelectedParent(db', j) # NULL
                  /\ SelectedParent(db', j) # j.final_asset_id)
                 => [parent_asset_id |-> SelectedParent(db', j),
                     child_asset_id |-> j.final_asset_id] \in db'.asset_links]_store

\* C26: upsert_asset does not clobber.  When ingest_run commits, the final
\* asset of every candidate the run has inserted, if the ingest created
\* that asset for the candidate, still carries the candidate's id and the
\* kind "candidate_final_output", also when the same path was upserted
\* afterwards as the job's final output.
C26_UpsertKeepsEstablished ==
    [][IngestCommit =>
        \A c \in db'.run_candidates \ db.run_candidates :
            (/\ c.final_asset_id # NULL
             /\ c.final_asset_id # c.output_asset_id
             /\ \A a \in db.assets : a.id # c.final_asset_id)
            => \A a \in db'.assets :
                 a.id = c.final_asset_id =>
                    /\ a.candidate_id = c.id
                    /\ a.kind = "candidate_final_output"]_store

\* C27: cancel/settle race.  No step of a worker (reserve, start, settle)
\* changes the status of an instruction that is canceled: a settlement of
\* an instruction canceled while the worker held it leaves it canceled,
\* and a canceled instruction is not reserved.
C27_CanceledStaysCanceled ==
    [][wk' # wk =>
        \A i \in DOMAIN instr :
            instr[i].status = "canceled" => instr'[i].status = "canceled"]_vars

\* C28: lease invariant.  In every reachable state an instruction whose
\* status is not running has locked_by and locked_at null.
C28_LeaseOnlyWhileRunning ==
    \A i \in DOMAIN instr :
        instr[i].status # "running" =>
            (instr[i].locked_by = NULL /\ instr[i].locked_at = NULL)

\* the dispatches of instruction i the remote agent has answered with 2xx:
\* each one is recorded by one "result" event
Answered(i) == {k \in DOMAIN events[i] : events[i][k].type = "result"}

\* C30: at-most-once delivery.  No instruction has been answered
\* successfully by the remote agent twice: after a successful answer there
\* is no further dispatch that the agent answers.
C30_AtMostOnceDelivery ==
    \A i \in DOMAIN instr : Cardinality(Answered(i)) <= 1

\* a queued instruction that the bounds of the model keep from being
\* reserved: its retry is due after the last tick of the clock, or the
\* events of a reservation no longer fit
BeyondBounds(i) ==
    /\ i \in DOMAIN instr
    /\ instr[i].status = "queued"
    /\ (instr[i].next_attempt_at > MaxTime \/ ~Admits(2))

\* C29: progress.  With worker loops that keep running and an agent that
\* answers every dispatch, every instruction that is queued is eventually
\* done or failed (or canceled, or beyond the bounds of the model).
C29_Progress ==
    \A i \in Ids :
        [](  (i \in DOMAIN instr /\ instr[i].status = "queued")
          => <>(\/ (i \in DOMAIN instr /\ instr[i].status \in {"done", "failed", "canceled"})
                \/ BeyondBounds(i)))

====
